---- MODULE Spec2Model ----
(***************************************************************************)
(* Model of deque_t<elemType, memoryAllocator> (src/deque/deque.h) over    *)
(* simple_allocator_t (src/deque/allocator.h).                             *)
(*                                                                         *)
(* The heap is a pool of node_t blocks addressed from 1, NULL is 0.       *)
(* Every deque object lives in one of the slots 1..NumDeques and carries   *)
(* its own allocator member; the allocator instance of slot d is named d.  *)
(* A call of a public method is one action.  The range-for loop            *)
(* "for (auto& d : deque) PushBack(d)" of the copy operations is run one   *)
(* iteration per step under pc = "copying", during which no other method   *)
(* can be called (the program is single-threaded).                         *)
(***************************************************************************)
EXTENDS Integers, Sequences, FiniteSets, TLC

\* ---------------------------------------------------------------- bounds
MaxNodes == 3          \* number of node_t blocks the heap can hold at once
ExtraNodes == 1        \* blocks a roomy heap holds beyond MaxNodes (copies need room)
NumDeques == 2         \* number of deque_t objects (slots)
MaxVal == 2            \* elemType values are 1..MaxVal
MaxList == 2           \* longest initializer list

\* ------------------------------------------------------ program constants
NULL == 0              \* nullptr

Nodes == 1 .. MaxNodes + ExtraNodes
Deques == 1 .. NumDeques
Values == 1 .. MaxVal
NoValue == 0           \* "no element" in a call record
Gone == -1             \* names an allocator instance that was destroyed
NoAllocator == 0       \* heap block is not allocated
Foreign == -2          \* heap block malloc cannot supply: other code holds it

\* messages of the exceptions the code throws
EmptyContainer == "Deque is empty"
InvalidIterator == "Try to use end iterator"
NoError == "None"
\* the process was terminated by a store through a null pointer
Crash == "SIGSEGV"

VARIABLES
  head,      \* head[d]  : deque_t::head of the deque in slot d
  tail,      \* tail[d]  : deque_t::tail
  size,      \* size[d]  : deque_t::size
  alive,     \* alive[d] : the object in slot d is constructed
  value,     \* value[n] : node_t::value of block n
  prev,      \* prev[n]  : node_t::prev
  next,      \* next[n]  : node_t::next
  by,        \* by[n]    : allocator instance that allocated block n, or NoAllocator
  log,       \* dealloc calls made by the current/last method call, in order
  err,       \* what the current/last call threw: an exception message, NoError or Crash
  pc,        \* "idle", "copying" (inside a copy loop) or "crashed"
  cit,       \* const_iterator of the running copy loop (curNode)
  cdst,      \* receiver (this) of the running copy loop
  iter,      \* an iterator object held by the caller: [kind, cur]
  oom,       \* TRUE when malloc cannot supply a block
  call       \* the running copy call: the method, its argument and what the
             \* call found when it began (NoCall when no copy loop is running)

vars == <<head, tail, size, alive, value, prev, next, by, log, err, pc, cit, cdst, iter, oom,
          call>>

\* The memory image the methods work on.
Mem == [head |-> head, tail |-> tail, size |-> size, alive |-> alive,
        value |-> value, prev |-> prev, next |-> next, by |-> by, log |-> log]

Install(s) ==
  /\ head' = s.head
  /\ tail' = s.tail
  /\ size' = s.size
  /\ alive' = s.alive
  /\ value' = s.value
  /\ prev' = s.prev
  /\ next' = s.next
  /\ by' = s.by
  /\ log' = s.log

\* ------------------------------------------------------------- allocator
FreeNodes(s) == {n \in Nodes : s.by[n] = NoAllocator}

\* simple_allocator_t::alloc: what malloc can return: NULL when it cannot
\* supply a block (o), any free block otherwise.  With no free block left in
\* the model's heap the call is not modelled (the set is empty).
alloc(s, o) == IF o THEN {NULL} ELSE FreeNodes(s)

\* simple_allocator_t::dealloc called on allocator instance a.  The contents
\* of a freed block are indeterminate; the model holds them at a fixed value
\* (no method reads a block that is not allocated, see ChainAllocated).
dealloc(s, a, data) ==
  IF data = NULL THEN s
  ELSE [s EXCEPT !.by[data] = NoAllocator,
                 !.value[data] = NoValue, !.prev[data] = NULL, !.next[data] = NULL,
                 !.log = Append(@, [node |-> data, by |-> s.by[data], via |-> a])]

\* stores through a node pointer; a store through a null pointer that did
\* not trap is lost
SetValue(s, n, v) == IF n = NULL THEN s ELSE [s EXCEPT !.value[n] = v]

SetPrev(s, n, p) == IF n = NULL THEN s ELSE [s EXCEPT !.prev[n] = p]

SetNext(s, n, p) == IF n = NULL THEN s ELSE [s EXCEPT !.next[n] = p]

\* the block malloc returned belongs to allocator instance a from now on
Claim(s, a, n) == IF n = NULL THEN s ELSE [s EXCEPT !.by[n] = a]

\* ------------------------------------------------------ deque primitives
IsEmpty(s, d) == s.head[d] = NULL

Size(s, d) == s.size[d]

\* PushFront that leaves the old head's prev link alone
PushFrontOp_NoBackLink(s, d, elem, tmp) ==
  LET s0 == Claim(s, d, tmp)
      s1 == SetValue(s0, tmp, elem)
      s2 == SetNext(s1, tmp, s1.head[d])
      s3 == SetPrev(s2, tmp, NULL)
      s5 == [s3 EXCEPT !.head[d] = tmp]
      s6 == IF s5.tail[d] = NULL THEN [s5 EXCEPT !.tail[d] = s5.head[d]] ELSE s5
  IN [s6 EXCEPT !.size[d] = @ + 1]

\* PushFront with tmp the block returned by allocator.alloc
PushFrontOp(s, d, elem, tmp) ==
  LET s0 == Claim(s, d, tmp)
      s1 == SetValue(s0, tmp, elem)
      s2 == SetNext(s1, tmp, s1.head[d])
      s3 == SetPrev(s2, tmp, NULL)
      s4 == IF s3.head[d] # NULL THEN SetPrev(s3, s3.head[d], tmp) ELSE s3
      s5 == [s4 EXCEPT !.head[d] = tmp]
      s6 == IF s5.tail[d] = NULL THEN [s5 EXCEPT !.tail[d] = s5.head[d]] ELSE s5
  IN [s6 EXCEPT !.size[d] = @ + 1]

\* a PushBack that links the new node in front of head
PushBackOp_Prepends(s, d, elem, tmp) == PushFrontOp(s, d, elem, tmp)

\* PushBack with tmp the block returned by allocator.alloc
PushBackOp(s, d, elem, tmp) ==
  LET s0 == Claim(s, d, tmp)
      s1 == SetValue(s0, tmp, elem)
      s2 == SetNext(s1, tmp, NULL)
      s3 == SetPrev(s2, tmp, s2.tail[d])
      s4 == IF s3.tail[d] # NULL THEN SetNext(s3, s3.tail[d], tmp) ELSE s3
      s5 == [s4 EXCEPT !.tail[d] = tmp]
      s6 == IF s5.head[d] = NULL THEN [s5 EXCEPT !.head[d] = s5.tail[d]] ELSE s5
  IN [s6 EXCEPT !.size[d] = @ + 1]

\* PopFront that forgets size--
PopFrontOp_KeepsSize(s, d) ==
  IF s.head[d] = NULL THEN [s |-> s, err |-> EmptyContainer]
  ELSE
    LET tmp == s.head[d]
        s1 == [s EXCEPT !.head[d] = s.next[tmp]]
        s2 == dealloc(s1, d, tmp)
        s3 == IF s2.head[d] = NULL THEN [s2 EXCEPT !.tail[d] = NULL]
              ELSE SetPrev(s2, s2.head[d], NULL)
    IN [s |-> s3, err |-> NoError]

\* PopFront that leaves the new head's prev link alone
PopFrontOp_KeepsPrev(s, d) ==
  IF s.head[d] = NULL THEN [s |-> s, err |-> EmptyContainer]
  ELSE
    LET tmp == s.head[d]
        s1 == [s EXCEPT !.head[d] = s.next[tmp]]
        s2 == dealloc(s1, d, tmp)
        s3 == IF s2.head[d] = NULL THEN [s2 EXCEPT !.tail[d] = NULL] ELSE s2
    IN [s |-> [s3 EXCEPT !.size[d] = @ - 1], err |-> NoError]

\* PopFront: the memory image after the call and the exception thrown
PopFrontOp(s, d) ==
  IF s.head[d] = NULL THEN [s |-> s, err |-> EmptyContainer]
  ELSE
    LET tmp == s.head[d]
        s1 == [s EXCEPT !.head[d] = s.next[tmp]]
        s2 == dealloc(s1, d, tmp)
        s3 == IF s2.head[d] = NULL THEN [s2 EXCEPT !.tail[d] = NULL]
              ELSE SetPrev(s2, s2.head[d], NULL)
    IN [s |-> [s3 EXCEPT !.size[d] = @ - 1], err |-> NoError]

\* PopBack that leaves the new tail's next link alone
PopBackOp_KeepsNext(s, d) ==
  IF s.tail[d] = NULL THEN [s |-> s, err |-> EmptyContainer]
  ELSE
    LET tmp == s.tail[d]
        s1 == [s EXCEPT !.tail[d] = s.prev[tmp]]
        s2 == dealloc(s1, d, tmp)
        s3 == IF s2.tail[d] = NULL THEN [s2 EXCEPT !.head[d] = NULL] ELSE s2
    IN [s |-> [s3 EXCEPT !.size[d] = @ - 1], err |-> NoError]

\* PopBack that returns quietly on an empty deque
PopBackOp_NoThrow(s, d) ==
  IF s.tail[d] = NULL THEN [s |-> s, err |-> NoError]
  ELSE
    LET tmp == s.tail[d]
        s1 == [s EXCEPT !.tail[d] = s.prev[tmp]]
        s2 == dealloc(s1, d, tmp)
        s3 == IF s2.tail[d] = NULL THEN [s2 EXCEPT !.head[d] = NULL]
              ELSE SetNext(s2, s2.tail[d], NULL)
    IN [s |-> [s3 EXCEPT !.size[d] = @ - 1], err |-> NoError]

\* PopBack: the memory image after the call and the exception thrown
PopBackOp(s, d) ==
  IF s.tail[d] = NULL THEN [s |-> s, err |-> EmptyContainer]
  ELSE
    LET tmp == s.tail[d]
        s1 == [s EXCEPT !.tail[d] = s.prev[tmp]]
        s2 == dealloc(s1, d, tmp)
        s3 == IF s2.tail[d] = NULL THEN [s2 EXCEPT !.head[d] = NULL]
              ELSE SetNext(s2, s2.tail[d], NULL)
    IN [s |-> [s3 EXCEPT !.size[d] = @ - 1], err |-> NoError]

\* PeekHead / GetFront: the element referred to and the exception thrown
FrontOp(s, d) ==
  IF s.head[d] = NULL THEN [v |-> NoValue, err |-> EmptyContainer]
  ELSE [v |-> s.value[s.head[d]], err |-> NoError]

\* PeekTail / GetBack: the element referred to and the exception thrown
BackOp(s, d) ==
  IF s.tail[d] = NULL THEN [v |-> NoValue, err |-> EmptyContainer]
  ELSE [v |-> s.value[s.tail[d]], err |-> NoError]

\* a Clear that removes from the head: while (head) PopFront();
RECURSIVE ClearOp_FromFront(_, _)
ClearOp_FromFront(s, d) ==
  IF s.head[d] = NULL THEN [s |-> s, err |-> NoError]
  ELSE LET r == PopFrontOp(s, d)
       IN IF r.err # NoError THEN r ELSE ClearOp_FromFront(r.s, d)

\* a Clear that pops before it tests: do PopBack(); while (head);
RECURSIVE ClearOp_PopsFirst(_, _)
ClearOp_PopsFirst(s, d) ==
  LET r == PopBackOp(s, d)
  IN IF r.err # NoError \/ r.s.head[d] = NULL THEN r ELSE ClearOp_PopsFirst(r.s, d)

\* Clear: while (head) PopBack();  an exception of PopBack leaves the loop
RECURSIVE ClearOp(_, _)
ClearOp(s, d) ==
  IF s.head[d] = NULL THEN [s |-> s, err |-> NoError]
  ELSE LET r == PopBackOp(s, d)
       IN IF r.err # NoError THEN r ELSE ClearOp(r.s, d)

\* a take-over that leaves the source its head and tail
TakeOver_SharesChain(s, d, o) ==
  LET s1 == [s EXCEPT !.head[d] = s.head[o]]
      s2 == [s1 EXCEPT !.tail[d] = s1.tail[o]]
  IN [s2 EXCEPT !.size[d] = s2.size[o]]

\* a take-over that forgets deque.size = 0
TakeOver_KeepsSourceSize(s, d, o) ==
  LET s1 == [s EXCEPT !.head[d] = s.head[o]]
      s2 == [s1 EXCEPT !.tail[d] = s1.tail[o]]
      s3 == [s2 EXCEPT !.size[d] = s2.size[o]]
      s4 == [s3 EXCEPT !.head[o] = NULL]
  IN [s4 EXCEPT !.tail[o] = NULL]

\* head = deque.head; tail = deque.tail; size = deque.size; then the source
\* fields are reset (move constructor, move operator=, empty-receiver branch
\* of the move merge).  d and o may be the same object.
TakeOver(s, d, o) ==
  LET s1 == [s EXCEPT !.head[d] = s.head[o]]
      s2 == [s1 EXCEPT !.tail[d] = s1.tail[o]]
      s3 == [s2 EXCEPT !.size[d] = s2.size[o]]
      s4 == [s3 EXCEPT !.head[o] = NULL]
      s5 == [s4 EXCEPT !.tail[o] = NULL]
  IN [s5 EXCEPT !.size[o] = 0]

\* a move merge that forgets deque.head->prev = tail
AddOtherDequeMoveOp_NoBackLink(s, d, o) ==
  IF s.tail[d] = NULL THEN TakeOver(s, d, o)
  ELSE IF s.head[o] # NULL
       THEN LET s1 == SetNext(s, s.tail[d], s.head[o])
                s3 == [s1 EXCEPT !.tail[d] = s1.tail[o]]
                s4 == [s3 EXCEPT !.size[d] = @ + s3.size[o]]
                s5 == [s4 EXCEPT !.head[o] = NULL]
                s6 == [s5 EXCEPT !.tail[o] = NULL]
            IN [s6 EXCEPT !.size[o] = 0]
       ELSE s

\* a move merge that forgets size += deque.size
AddOtherDequeMoveOp_KeepsSize(s, d, o) ==
  IF s.tail[d] = NULL THEN TakeOver(s, d, o)
  ELSE IF s.head[o] # NULL
       THEN LET s1 == SetNext(s, s.tail[d], s.head[o])
                s2 == SetPrev(s1, s1.head[o], s1.tail[d])
                s3 == [s2 EXCEPT !.tail[d] = s2.tail[o]]
                s5 == [s3 EXCEPT !.head[o] = NULL]
                s6 == [s5 EXCEPT !.tail[o] = NULL]
            IN [s6 EXCEPT !.size[o] = 0]
       ELSE s

\* AddOtherDeque(deque_t&&)
AddOtherDequeMoveOp(s, d, o) ==
  IF s.tail[d] = NULL THEN TakeOver(s, d, o)
  ELSE IF s.head[o] # NULL
       THEN LET s1 == SetNext(s, s.tail[d], s.head[o])
                s2 == SetPrev(s1, s1.head[o], s1.tail[d])
                s3 == [s2 EXCEPT !.tail[d] = s2.tail[o]]
                s4 == [s3 EXCEPT !.size[d] = @ + s3.size[o]]
                s5 == [s4 EXCEPT !.head[o] = NULL]
                s6 == [s5 EXCEPT !.tail[o] = NULL]
            IN [s6 EXCEPT !.size[o] = 0]
       ELSE s

\* the member initialisers head(nullptr), tail(nullptr), size(0) of a
\* constructor building the object in slot d
Construct(s, d) ==
  [s EXCEPT !.head[d] = NULL, !.tail[d] = NULL, !.size[d] = 0, !.alive[d] = TRUE]

\* the end of the lifetime of the object in slot d and of its allocator
\* member: blocks that allocator handed out and that are still allocated
\* now belong to an instance that no longer exists
EndLifetime(s, d) ==
  [s EXCEPT !.head[d] = NULL, !.tail[d] = NULL, !.size[d] = 0, !.alive[d] = FALSE,
            !.by = [n \in Nodes |-> IF s.by[n] = d THEN Gone ELSE s.by[n]]]

\* for (auto& l : list) PushBack(l): every memory image the loop can end
\* in, one per choice of blocks by malloc
RECURSIVE PushBackAll(_, _, _, _)
PushBackAll(s, d, list, o) ==
  IF list = <<>> THEN {s}
  ELSE UNION { PushBackAll(PushBackOp(s, d, Head(list), tmp), d, Tail(list), o) :
               tmp \in alloc(s, o) }

\* ------------------------------------------------------------- iterators
Kinds == {"iterator", "const_iterator", "reverse_iterator"}

NoIter == [kind |-> "none", cur |-> NULL]

\* begin() / rbegin()
BeginOp(s, d, kind) ==
  [kind |-> kind, cur |-> IF kind = "reverse_iterator" THEN s.tail[d] ELSE s.head[d]]

\* end() / rend()
EndOp(kind) == [kind |-> kind, cur |-> NULL]

\* an increment that silently stays at the past-the-end position
IncOp_Stays(s, it) ==
  IF it.cur = NULL THEN [it |-> it, err |-> NoError]
  ELSE [it |-> [it EXCEPT !.cur = IF it.kind = "reverse_iterator"
                                   THEN s.prev[it.cur] ELSE s.next[it.cur]],
        err |-> NoError]

\* operator++ and operator++(int): the iterator after the call and the
\* exception thrown
IncOp(s, it) ==
  IF it.cur = NULL THEN [it |-> it, err |-> InvalidIterator]
  ELSE [it |-> [it EXCEPT !.cur = IF it.kind = "reverse_iterator"
                                   THEN s.prev[it.cur] ELSE s.next[it.cur]],
        err |-> NoError]

\* operator*: the element referred to and the exception thrown
DerefOp(s, it) ==
  IF it.cur = NULL THEN [v |-> NoValue, err |-> InvalidIterator]
  ELSE [v |-> s.value[it.cur], err |-> NoError]

\* operator!=
NotEqual(it1, it2) == it1.cur # it2.cur

\* for (it = begin(); it != end(); it++): the nodes the loop visits on
\* memory image s, for at most fuel turns (the advanced iterator is named
\* once, as nxt, and the rest of the loop runs from it)
RECURSIVE Path(_, _, _)
Path(s, it, fuel) ==
  IF fuel = 0 \/ ~NotEqual(it, EndOp(it.kind)) THEN <<>>
  ELSE CHOOSE p \in {<<it.cur>> \o Path(s, nxt, fuel - 1) : nxt \in {IncOp(s, it).it}} : TRUE

\* more turns than a chain of distinct blocks can take
Fuel == MaxNodes + ExtraNodes + 1

\* the values *it yields along a path
Yield(s, kind, path) ==
  [i \in 1 .. Len(path) |-> DerefOp(s, [kind |-> kind, cur |-> path[i]]).v]

\* the elements a full forward traversal of deque d yields
Forward(s, d) ==
  Yield(s, "iterator", Path(s, BeginOp(s, d, "iterator"), Fuel))

\* the elements a full reverse traversal of deque d yields
Backward(s, d) ==
  Yield(s, "reverse_iterator", Path(s, BeginOp(s, d, "reverse_iterator"), Fuel))

\* ------------------------------------------------------------ call frame
\* a method can be called: no call is running and the process is alive
Idle == pc = "idle"

\* the object in slot d exists
Live(d) == alive[d]

\* every method call starts with an empty dealloc log
Fresh == [Mem EXCEPT !.log = <<>>]

\* iterators the caller holds do not survive a call that changes the chain
KeepIter(s) ==
  IF <<s.head, s.tail, s.prev, s.next, s.by>> = <<head, tail, prev, next, by>>
  THEN iter ELSE NoIter

\* The call returned (e = NoError) or threw e, with memory image s.
Return(s, e) ==
  /\ Install(s)
  /\ err' = e
  /\ pc' = "idle"
  /\ iter' = KeepIter(s)
  /\ UNCHANGED <<cit, cdst, oom, call>>

\* The call stored through a null pointer (or an exception left a
\* destructor) and the process was terminated.
Crashed ==
  /\ err' = Crash
  /\ pc' = "crashed"
  /\ UNCHANGED <<head, tail, size, alive, value, prev, next, by, log, cit, cdst, iter, oom,
                 call>>

\* no copy loop is running
NoCall == [op |-> "none", src |-> 0, mine |-> <<>>, theirs |-> <<>>, todo |-> 0]

\* a shallow copy: the receiver is given the argument's head, tail and size
\* and the loop has nothing left to do
EnterCopy_Shallow(s, d, o, op) ==
  /\ Install([s EXCEPT !.head[d] = s.head[o], !.tail[d] = s.tail[o],
                       !.size[d] = s.size[o]])
  /\ err' = NoError
  /\ pc' = "copying"
  /\ cit' = NULL
  /\ cdst' = d
  /\ iter' = KeepIter(s)
  /\ call' = [op |-> op, src |-> o, mine |-> Forward(Mem, d),
              theirs |-> Forward(Mem, o), todo |-> 0]
  /\ UNCHANGED oom

\* The call of method op entered its loop for (auto& d : deque) PushBack(d)
\* over the deque in slot o, with memory image s and receiver d.  The call
\* record keeps the argument, what begin()..end() of the receiver (mine) and
\* of the argument (theirs) yielded when the call began, and how many of the
\* elements the argument holds at the start of the loop are still to be
\* appended (todo).
EnterCopy(s, d, o, op) ==
  /\ Install(s)
  /\ err' = NoError
  /\ pc' = "copying"
  /\ cit' = BeginOp(s, o, "const_iterator").cur
  /\ cdst' = d
  /\ iter' = KeepIter(s)
  /\ call' = [op |-> op, src |-> o, mine |-> Forward(Mem, d),
              theirs |-> Forward(Mem, o), todo |-> Size(s, o)]
  /\ UNCHANGED oom

\* the model's heap has room for a copy of the chain of o
Room(s, o) == Len(Forward(s, o)) <= Cardinality(FreeNodes(s))

\* --------------------------------------------------------------- actions
\* a push whose allocation failed either traps on the store through the
\* null block or goes on with the stores lost
PushFront(d, elem) ==
  /\ Idle /\ Live(d)
  /\ \E tmp \in alloc(Fresh, oom) :
       \/ /\ tmp = NULL => size[d] <= MaxNodes
          /\ Return(PushFrontOp(Fresh, d, elem, tmp), NoError)
       \/ tmp = NULL /\ Crashed

PushBack(d, elem) ==
  /\ Idle /\ Live(d)
  /\ \E tmp \in alloc(Fresh, oom) :
       \/ /\ tmp = NULL => size[d] <= MaxNodes
          /\ Return(PushBackOp(Fresh, d, elem, tmp), NoError)
       \/ tmp = NULL /\ Crashed

PopFront(d) ==
  /\ Idle /\ Live(d)
  /\ LET r == PopFrontOp(Fresh, d)
     IN Return(r.s, r.err)

PopBack(d) ==
  /\ Idle /\ Live(d)
  /\ LET r == PopBackOp(Fresh, d)
     IN Return(r.s, r.err)

PeekHead(d) ==
  /\ Idle /\ Live(d)
  /\ Return(Fresh, FrontOp(Fresh, d).err)

GetFront(d) ==
  /\ Idle /\ Live(d)
  /\ Return(Fresh, FrontOp(Fresh, d).err)

PeekTail(d) ==
  /\ Idle /\ Live(d)
  /\ Return(Fresh, BackOp(Fresh, d).err)

GetBack(d) ==
  /\ Idle /\ Live(d)
  /\ Return(Fresh, BackOp(Fresh, d).err)

Clear(d) ==
  /\ Idle /\ Live(d)
  /\ LET r == ClearOp(Fresh, d)
     IN Return(r.s, r.err)

\* ~deque_t: an exception leaving the destructor terminates the process
Destroy(d) ==
  /\ Idle /\ Live(d)
  /\ LET r == ClearOp(Fresh, d)
     IN IF r.err = NoError
        THEN Return(EndLifetime(r.s, d), NoError)
        ELSE Crashed

\* deque_t()
DefaultCtor(d) ==
  /\ Idle /\ ~Live(d)
  /\ Return(Construct(Fresh, d), NoError)

\* deque_t(std::initializer_list<elemType>)
InitListCtor(d, list) ==
  /\ Idle /\ ~Live(d)
  /\ oom => Len(list) <= MaxNodes
  /\ \/ \E s \in PushBackAll(Construct(Fresh, d), d, list, oom) :
          Return(s, NoError)
     \/ oom /\ list # <<>> /\ Crashed

\* deque_t(deque_t const&)
CopyCtor(d, o) ==
  /\ Idle /\ ~Live(d) /\ Live(o)
  /\ Room(Fresh, o)
  /\ EnterCopy(Construct(Fresh, d), d, o, "CopyCtor")

\* deque_t(deque_t&&)
MoveCtor(d, o) ==
  /\ Idle /\ ~Live(d) /\ Live(o)
  /\ Return(TakeOver([Fresh EXCEPT !.alive[d] = TRUE], d, o), NoError)

\* operator=(deque_t const&)
CopyAssign(d, o) ==
  /\ Idle /\ Live(d) /\ Live(o)
  /\ LET r == ClearOp(Fresh, d)
     IN IF r.err # NoError THEN Return(r.s, r.err)
        ELSE Room(r.s, o) /\ EnterCopy(r.s, d, o, "CopyAssign")

\* a move assignment that adopts the argument's chain before it clears
MoveAssign_AdoptsFirst(d, o) ==
  /\ Idle /\ Live(d) /\ Live(o)
  /\ LET r == ClearOp(TakeOver(Fresh, d, o), d)
     IN Return(r.s, r.err)

\* operator=(deque_t&&)
MoveAssign(d, o) ==
  /\ Idle /\ Live(d) /\ Live(o)
  /\ LET r == ClearOp(Fresh, d)
     IN IF r.err # NoError THEN Return(r.s, r.err)
        ELSE Return(TakeOver(r.s, d, o), NoError)

\* a copy merge that takes the argument's chain over as the move merge does
AddOtherDequeCopy_Steals(d, o) ==
  /\ Idle /\ Live(d) /\ Live(o)
  /\ Return(AddOtherDequeMoveOp(Fresh, d, o), NoError)

\* AddOtherDeque(deque_t const&)
AddOtherDequeCopy(d, o) ==
  /\ Idle /\ Live(d) /\ Live(o)
  /\ Room(Fresh, o)
  /\ EnterCopy(Fresh, d, o, "AddOtherDeque")

\* AddOtherDeque(deque_t&&)
AddOtherDequeMove(d, o) ==
  /\ Idle /\ Live(d) /\ Live(o)
  /\ Return(AddOtherDequeMoveOp(Fresh, d, o), NoError)

\* one turn of for (auto& d : deque) PushBack(d): the test against end(),
\* then PushBack(*it), then ++it; the loop returns when the test fails
CopyStep ==
  /\ pc = "copying"
  /\ LET it == [kind |-> "const_iterator", cur |-> cit]
     IN IF ~NotEqual(it, EndOp("const_iterator"))
        THEN /\ pc' = "idle"
             /\ call' = NoCall
             /\ UNCHANGED <<head, tail, size, alive, value, prev, next, by, log, err,
                            cit, cdst, iter, oom>>
        ELSE \E tmp \in alloc(Mem, oom) :
               \/ /\ tmp = NULL => size[cdst] <= MaxNodes
                  /\ LET s == PushBackOp(Mem, cdst, DerefOp(Mem, it).v, tmp)
                     IN /\ Install(s)
                        /\ cit' = IncOp(s, it).it.cur
                        /\ iter' = KeepIter(s)
                        /\ call' = [call EXCEPT !.todo = @ - 1]
                        /\ UNCHANGED <<err, pc, cdst, oom>>
               \/ tmp = NULL /\ Crashed

\* iterator objects of the caller
Begin(d, kind) ==
  /\ Idle /\ Live(d)
  /\ iter' = BeginOp(Mem, d, kind)
  /\ err' = NoError
  /\ UNCHANGED <<head, tail, size, alive, value, prev, next, by, log, pc, cit, cdst, oom,
                 call>>

End(d, kind) ==
  /\ Idle /\ Live(d)
  /\ iter' = EndOp(kind)
  /\ err' = NoError
  /\ UNCHANGED <<head, tail, size, alive, value, prev, next, by, log, pc, cit, cdst, oom,
                 call>>

\* operator++()
PreInc ==
  /\ Idle /\ iter.kind \in Kinds
  /\ LET r == IncOp(Mem, iter)
     IN /\ iter' = r.it
        /\ err' = r.err
  /\ UNCHANGED <<head, tail, size, alive, value, prev, next, by, log, pc, cit, cdst, oom,
                 call>>

\* operator++(int)
PostInc ==
  /\ Idle /\ iter.kind \in Kinds
  /\ LET r == IncOp(Mem, iter)
     IN /\ iter' = r.it
        /\ err' = r.err
  /\ UNCHANGED <<head, tail, size, alive, value, prev, next, by, log, pc, cit, cdst, oom,
                 call>>

\* operator*
Deref ==
  /\ Idle /\ iter.kind \in Kinds
  /\ LET r == DerefOp(Mem, iter)
     IN err' = r.err
  /\ UNCHANGED <<head, tail, size, alive, value, prev, next, by, log, pc, cit, cdst, iter, oom,
                 call>>

\* the environment: memory runs out, malloc fails from now on
Exhaust ==
  /\ Idle /\ ~oom
  /\ oom' = TRUE
  /\ UNCHANGED <<head, tail, size, alive, value, prev, next, by, log, err, pc, cit, cdst, iter,
                 call>>

\* ------------------------------------------------------------------ init
\* every slot holds a default-constructed deque, the heap has k blocks to
\* give, all free
InitHeap(k) ==
  /\ head = [d \in Deques |-> NULL]
  /\ tail = [d \in Deques |-> NULL]
  /\ size = [d \in Deques |-> 0]
  /\ alive = [d \in Deques |-> TRUE]
  /\ value = [n \in Nodes |-> NoValue]
  /\ prev = [n \in Nodes |-> NULL]
  /\ next = [n \in Nodes |-> NULL]
  /\ by = [n \in Nodes |-> IF n <= k THEN NoAllocator ELSE Foreign]
  /\ log = <<>>
  /\ err = NoError
  /\ pc = "idle"
  /\ cit = NULL
  /\ cdst = 1
  /\ iter = NoIter
  /\ oom = FALSE
  /\ call = NoCall

Init == InitHeap(MaxNodes)

\* the same over a heap with room for the copy of a chain of two
InitRoomy == InitHeap(MaxNodes + ExtraNodes)

Lists == UNION {[1 .. n -> Values] : n \in 0 .. MaxList}

\* the methods of deque_t
Next ==
  \/ \E d \in Deques, elem \in Values : PushFront(d, elem)
  \/ \E d \in Deques, elem \in Values : PushBack(d, elem)
  \/ \E d \in Deques : PopFront(d)
  \/ \E d \in Deques : PopBack(d)
  \/ \E d \in Deques : PeekHead(d)
  \/ \E d \in Deques : GetFront(d)
  \/ \E d \in Deques : PeekTail(d)
  \/ \E d \in Deques : GetBack(d)
  \/ \E d \in Deques : Clear(d)
  \/ \E d \in Deques : Destroy(d)
  \/ \E d \in Deques : DefaultCtor(d)
  \/ \E d \in Deques, list \in Lists : InitListCtor(d, list)
  \/ \E d \in Deques, o \in Deques : CopyCtor(d, o)
  \/ \E d \in Deques, o \in Deques : MoveCtor(d, o)
  \/ \E d \in Deques, o \in Deques : CopyAssign(d, o)
  \/ \E d \in Deques, o \in Deques : MoveAssign(d, o)
  \/ \E d \in Deques, o \in Deques : AddOtherDequeCopy(d, o)
  \/ \E d \in Deques, o \in Deques : AddOtherDequeMove(d, o)
  \/ CopyStep

Spec == Init /\ [][Next]_vars

\* sequences of PushFront/PushBack/PopFront/PopBack calls on
\* default-constructed deques
NextPushPop ==
  \/ \E d \in Deques, elem \in Values : PushFront(d, elem)
  \/ \E d \in Deques, elem \in Values : PushBack(d, elem)
  \/ \E d \in Deques : PopFront(d)
  \/ \E d \in Deques : PopBack(d)

SpecPushPop == Init /\ [][NextPushPop]_vars

\* the methods of the iterators, over deques built by pushes and pops
NextIter ==
  \/ \E d \in Deques, elem \in Values : PushFront(d, elem)
  \/ \E d \in Deques, elem \in Values : PushBack(d, elem)
  \/ \E d \in Deques : PopFront(d)
  \/ \E d \in Deques : PopBack(d)
  \/ \E d \in Deques, kind \in Kinds : Begin(d, kind)
  \/ \E d \in Deques, kind \in Kinds : End(d, kind)
  \/ PreInc
  \/ PostInc
  \/ Deref

SpecIter == Init /\ [][NextIter]_vars

\* pushes, pops and Clear over an allocator that can fail
NextOOM ==
  \/ \E d \in Deques, elem \in Values : PushFront(d, elem)
  \/ \E d \in Deques, elem \in Values : PushBack(d, elem)
  \/ \E d \in Deques : PopFront(d)
  \/ \E d \in Deques : PopBack(d)
  \/ \E d \in Deques : Clear(d)
  \/ Exhaust

SpecOOM == Init /\ [][NextOOM]_vars

\* the move merge, over deques built by pushes and pops
NextMerge ==
  \/ \E d \in Deques, elem \in Values : PushFront(d, elem)
  \/ \E d \in Deques, elem \in Values : PushBack(d, elem)
  \/ \E d \in Deques : PopFront(d)
  \/ \E d \in Deques : PopBack(d)
  \/ \E d \in Deques, o \in Deques : AddOtherDequeMove(d, o)

SpecMerge == Init /\ [][NextMerge]_vars

\* move construction and move assignment, over deques built by pushes and
\* pops
NextMove ==
  \/ \E d \in Deques, elem \in Values : PushFront(d, elem)
  \/ \E d \in Deques, elem \in Values : PushBack(d, elem)
  \/ \E d \in Deques : PopFront(d)
  \/ \E d \in Deques : PopBack(d)
  \/ \E d \in Deques : Destroy(d)
  \/ \E d \in Deques, o \in Deques : MoveCtor(d, o)
  \/ \E d \in Deques, o \in Deques : MoveAssign(d, o)

SpecMove == Init /\ [][NextMove]_vars

\* copy construction, copy assignment and the copy merge, with the
\* mutations that can follow a copy, over the roomy heap
NextCopy ==
  \/ \E d \in Deques, elem \in Values : PushFront(d, elem)
  \/ \E d \in Deques, elem \in Values : PushBack(d, elem)
  \/ \E d \in Deques : PopFront(d)
  \/ \E d \in Deques : PopBack(d)
  \/ \E d \in Deques : Clear(d)
  \/ \E d \in Deques : Destroy(d)
  \/ \E d \in Deques, o \in Deques : CopyCtor(d, o)
  \/ \E d \in Deques, o \in Deques : CopyAssign(d, o)
  \/ \E d \in Deques, o \in Deques : AddOtherDequeCopy(d, o)
  \/ CopyStep

SpecCopy == InitRoomy /\ [][NextCopy]_vars

\* construction from initializer lists; the deques are read, popped and
\* destroyed
NextInitList ==
  \/ \E d \in Deques, list \in Lists : InitListCtor(d, list)
  \/ \E d \in Deques : PopFront(d)
  \/ \E d \in Deques : PopBack(d)
  \/ \E d \in Deques : Destroy(d)

SpecInitList == Init /\ [][NextInitList]_vars

\* ------------------------------------------------------------ properties
\* p is null or refers to an allocated block
Allocated(p) == p = NULL \/ by[p] # NoAllocator

\* Every pointer a method can follow next refers to an allocated block, so
\* no method reads or writes a block after it was freed.
ChainAllocated ==
  /\ \A d \in Deques : Live(d) =>
        /\ Allocated(head[d]) /\ Allocated(tail[d])
        /\ head[d] # NULL => Allocated(next[head[d]])
        /\ tail[d] # NULL => Allocated(prev[tail[d]])
  /\ Allocated(cit) /\ (cit # NULL => Allocated(next[cit]))
  /\ Allocated(iter.cur)
  /\ iter.cur # NULL => Allocated(next[iter.cur]) /\ Allocated(prev[iter.cur])

Reverse(seq) == [i \in 1 .. Len(seq) |-> seq[Len(seq) + 1 - i]]

\* what begin()..end() and rbegin()..rend() yield in the current state
Fwd(d) == Forward(Mem, d)

Bwd(d) == Backward(Mem, d)

\* the nodes begin()..end() and rbegin()..rend() visit in the current state
FwdNodes(d) == Path(Mem, BeginOp(Mem, d, "iterator"), Fuel)

BwdNodes(d) == Path(Mem, BeginOp(Mem, d, "reverse_iterator"), Fuel)

\* the fields of every deque object and the contents of the heap
Store == <<head, tail, size, alive, value, prev, next, by>>

\* a call of PushFront or PushBack on d
IsPush(d) == \E elem \in Values : PushFront(d, elem) \/ PushBack(d, elem)

\* a call of PopFront or PopBack on d
IsPop(d) == PopFront(d) \/ PopBack(d)

\* a call on d of a method that reads or removes an end element
IsEndAccess(d) ==
  PopFront(d) \/ PopBack(d) \/ PeekHead(d) \/ GetFront(d) \/ PeekTail(d) \/ GetBack(d)

\* ----------------------------------------------------------------- C1
C1_Step ==
  \A d \in Deques :
    /\ IsPush(d) /\ pc' = "idle" =>
         /\ Size(Mem, d)' = Size(Mem, d) + 1
         /\ \A e \in Deques \ {d} : Size(Mem, e)' = Size(Mem, e)
    /\ IsPop(d) /\ err' = NoError =>
         /\ Size(Mem, d)' = Size(Mem, d) - 1
         /\ \A e \in Deques \ {d} : Size(Mem, e)' = Size(Mem, e)
    /\ IsPop(d) /\ err' # NoError =>
         /\ IsEmpty(Mem, d)
         /\ \A e \in Deques : Size(Mem, e)' = Size(Mem, e)

C1_EmptyIffSizeZero ==
  \A d \in Deques : Live(d) => (IsEmpty(Mem, d) <=> Size(Mem, d) = 0)

\* C1: every PushFront/PushBack call raises Size() of its deque by exactly
\* one, every pop that succeeds lowers it by exactly one, a pop fails only on
\* an empty deque and then changes no Size(); so from a default-constructed
\* deque Size() is the number of pushes minus the number of successful pops.
\* IsEmpty() is true exactly when Size() = 0.
C1_SizeIsPushesMinusPops ==
  C1_EmptyIffSizeZero /\ [][C1_Step /\ C1_EmptyIffSizeZero']_vars

\* a deque that holds two elements after one of its pops succeeded
C1_Witness ==
  \E d \in Deques :
    /\ Live(d) /\ pc = "idle" /\ err = NoError
    /\ Size(Mem, d) = 2 /\ ~IsEmpty(Mem, d)
    /\ Len(log) = 1 /\ log[1].via = d

\* ----------------------------------------------------------------- C2
C2_Step ==
  \A d \in Deques :
    /\ \A elem \in Values :
         /\ PushFront(d, elem) => Fwd(d)' = <<elem>> \o Fwd(d)
         /\ PushBack(d, elem) => Fwd(d)' = Append(Fwd(d), elem)
    /\ PopFront(d) /\ err' = NoError => Fwd(d) # <<>> /\ Fwd(d)' = Tail(Fwd(d))
    /\ PopBack(d) /\ err' = NoError =>
         Fwd(d) # <<>> /\ Fwd(d)' = SubSeq(Fwd(d), 1, Len(Fwd(d)) - 1)
    /\ IsPush(d) \/ IsPop(d) => \A e \in Deques \ {d} : Fwd(e)' = Fwd(e)

C2_Traversals ==
  \A d \in Deques : Live(d) =>
    /\ Len(Fwd(d)) = Size(Mem, d)
    /\ Bwd(d) = Reverse(Fwd(d))

\* C2: the chain refines a sequence: PushFront(v) prepends v to what forward
\* iteration yields, PushBack(v) appends v, PopFront removes the first and
\* PopBack the last element; forward iteration visits exactly Size()
\* elements and reverse iteration yields the same elements in reverse order.
C2_ChainRefinesSequence ==
  C2_Traversals /\ [][C2_Step /\ C2_Traversals']_vars

\* a deque of two elements that reads differently in the two directions,
\* left by a pop
C2_Witness ==
  \E d \in Deques :
    /\ Live(d) /\ pc = "idle"
    /\ Len(Fwd(d)) = 2 /\ Fwd(d) # Bwd(d)
    /\ Len(log) = 1 /\ log[1].via = d

\* ----------------------------------------------------------------- C3
\* C3: in every state, for every deque object, head is null iff tail is
\* null iff size is 0.
C3_EmptinessAgrees ==
  \A d \in Deques : Live(d) =>
    /\ (head[d] = NULL) <=> (tail[d] = NULL)
    /\ (head[d] = NULL) <=> (size[d] = 0)

\* a deque emptied by a move next to a deque that holds the moved chain
C3_Witness ==
  \E d, o \in Deques :
    /\ d # o /\ Live(d) /\ Live(o) /\ pc = "idle"
    /\ head[o] = NULL /\ tail[o] = NULL /\ size[o] = 0
    /\ size[d] >= 2 /\ by[tail[d]] = o

\* ----------------------------------------------------------------- C4
\* C4: in every state, for every deque object, the next links lead from head
\* to tail in exactly size - 1 steps, the prev links lead from tail to head
\* over the same nodes in reverse, no node occurs twice, and size is the
\* number of nodes reachable from head.
C4_ChainWellFormed ==
  \A d \in Deques : Live(d) =>
    LET f == FwdNodes(d)
        b == BwdNodes(d)
    IN /\ Len(f) = size[d]
       /\ b = Reverse(f)
       /\ \A i, j \in 1 .. Len(f) : f[i] = f[j] => i = j
       /\ size[d] > 0 => f[1] = head[d] /\ f[size[d]] = tail[d]

\* a chain made of the nodes of two allocators: the first node was allocated
\* by the deque that holds it, the rest by the other deque
C4_Witness ==
  \E d, o \in Deques :
    /\ d # o /\ Live(d) /\ Live(o) /\ pc = "idle"
    /\ size[d] = 3 /\ size[o] = 0
    /\ by[head[d]] = d /\ by[next[head[d]]] = o /\ by[tail[d]] = o

C6_Step ==
  \A d \in Deques :
    IsEmpty(Mem, d) /\ IsEndAccess(d) =>
      /\ err' = EmptyContainer
      /\ UNCHANGED Store
      /\ head'[d] = NULL /\ tail'[d] = NULL /\ size'[d] = 0

\* C6: PopFront, PopBack, PeekHead, PeekTail, GetFront and GetBack called on
\* an empty deque throw "Deque is empty" and change nothing: the deque is
\* still empty, with head and tail null and size 0.
C6_EmptyAccessThrows == [][C6_Step]_vars

\* the exception was thrown on a deque whose own nodes sit in another deque
\* (it was emptied by a move)
C6_Witness ==
  /\ err = EmptyContainer /\ pc = "idle"
  /\ \E d, o \in Deques :
       /\ d # o /\ Live(d) /\ Live(o)
       /\ IsEmpty(Mem, d) /\ ~IsEmpty(Mem, o)
       /\ by[head[o]] = d

\* ----------------------------------------------------------------- C7
C7_Step ==
  (PreInc \/ PostInc \/ Deref) /\ iter.cur = NULL =>
    /\ err' = InvalidIterator
    /\ iter' = iter

\* C7: dereferencing or advancing (prefix or postfix) an iterator,
\* const_iterator or reverse_iterator whose node is null throws "Try to use
\* end iterator" and leaves the iterator where it was.
C7_EndIteratorThrows == [][C7_Step]_vars

\* a reverse iterator past the end of a non-empty deque after a throwing call
C7_Witness ==
  /\ err = InvalidIterator
  /\ iter.kind = "reverse_iterator" /\ iter.cur = NULL
  /\ \E d \in Deques : size[d] >= 2

\* ----------------------------------------------------------------- C8
\* the error the specification names for a failed allocation
OutOfMemory == "OutOfMemory"

C8_Step ==
  \A d \in Deques : IsPush(d) /\ oom => err' = OutOfMemory /\ pc' = "idle"

\* C8: a PushFront or PushBack whose node allocation fails reports
\* OutOfMemory to its caller and does not go on to use the missing block.
C8_PushReportsOutOfMemory == [][C8_Step]_vars

\* ----------------------------------------------------------------- C9
C9_Step ==
  \A d \in Deques : IsPush(d) /\ oom => UNCHANGED Store

\* C9: a PushFront or PushBack whose node allocation fails leaves head,
\* tail, size and every node's value and links as they were.
C9_FailedPushChangesNothing == [][C9_Step]_vars

\* ---------------------------------------------------------------- C10
\* C10: every dealloc call goes to the allocator instance that allocated the
\* block.
C10_SameAllocator ==
  \A i \in 1 .. Len(log) : log[i].via = log[i].by

\* ---------------------------------------------------------------- C11
\* the loops: a running copy merge has appended no more than its argument
\* held when the call began and its loop test fails exactly when it has
\* appended that many; a full traversal in either direction makes Size()
\* advances
C11_Loops ==
  /\ pc = "copying" /\ call.op = "AddOtherDeque" =>
       /\ call.todo >= 0
       /\ (cit = NULL) <=> (call.todo = 0)
  /\ pc = "idle" =>
       \A d \in Deques : Live(d) =>
         Len(FwdNodes(d)) = Size(Mem, d) /\ Len(BwdNodes(d)) = Size(Mem, d)

C11_Step ==
  \A d \in Deques : Clear(d) => err' = NoError /\ Len(log') = Size(Mem, d)

\* C11: every operation terminates: Clear returns after exactly Size()
\* removals, a full forward or reverse traversal reaches end()/rend() after
\* exactly Size() advances, and the copy merge AddOtherDeque(const deque&)
\* returns after appending exactly as many elements as its argument held when
\* the call began, the argument being the receiver itself included.
C11_OperationsTerminate == C11_Loops /\ [][C11_Step /\ C11_Loops']_vars

\* ---------------------------------------------------------------- C12
C12_Step ==
  \A d, o \in Deques :
    d # o /\ AddOtherDequeMove(d, o) =>
      /\ Fwd(d)' = Fwd(d) \o Fwd(o)
      /\ Size(Mem, d)' = Size(Mem, d) + Size(Mem, o)
      /\ head'[o] = NULL /\ tail'[o] = NULL /\ size'[o] = 0
      /\ IsEmpty(Mem, d) =>
           head'[d] = head[o] /\ tail'[d] = tail[o] /\ size'[d] = size[o]

\* C12: for two distinct deques A.AddOtherDeque(move(B)) leaves A yielding
\* A's elements followed by B's with Size() the sum of the two sizes, and
\* leaves B with head and tail null and size 0; an empty A adopts B's head,
\* tail and size as they are.
C12_MoveMergeConcatenates == [][C12_Step]_vars

\* a chain of three whose first two nodes its deque allocated and whose last
\* node the other, now empty, deque allocated: a move merge of [b1] into
\* [a1, a2]
C12_Witness ==
  \E d, o \in Deques :
    /\ d # o /\ Live(d) /\ Live(o) /\ pc = "idle" /\ err = NoError /\ log = <<>>
    /\ size[d] = 3 /\ head[o] = NULL /\ tail[o] = NULL /\ size[o] = 0
    /\ by[head[d]] = d /\ by[next[head[d]]] = d /\ by[tail[d]] = o
    /\ prev[tail[d]] = next[head[d]]

\* ---------------------------------------------------------------- C13
\* the copy merge d.AddOtherDeque(o) is running
C13_Merging(d, o) ==
  pc = "copying" /\ call.op = "AddOtherDeque" /\ cdst = d /\ call.src = o

\* when the loop test of a copy merge of two distinct deques fails (the call
\* returns), the receiver yields what it yielded when the call began followed
\* by what the argument yielded, and the argument yields what it did
C13_Done ==
  \A d, o \in Deques :
    d # o /\ C13_Merging(d, o) /\ cit = NULL =>
      /\ Fwd(d) = call.mine \o call.theirs
      /\ Size(Mem, d) = Len(call.mine) + Len(call.theirs)
      /\ Fwd(o) = call.theirs
      /\ Size(Mem, o) = Len(call.theirs)

\* no step of the call touches the argument's fields or nodes
C13_Step ==
  \A d, o \in Deques :
    d # o /\ (AddOtherDequeCopy(d, o) \/ (CopyStep /\ C13_Merging(d, o))) =>
      /\ head'[o] = head[o] /\ tail'[o] = tail[o] /\ size'[o] = size[o]
      /\ \A i \in 1 .. Len(FwdNodes(o)) :
           LET n == FwdNodes(o)[i]
           IN value'[n] = value[n] /\ prev'[n] = prev[n] /\ next'[n] = next[n]
              /\ by'[n] = by[n]

\* C13: for two distinct deques A.AddOtherDeque(B) leaves A yielding A's
\* elements followed by B's with Size() the sum of the two sizes, while B's
\* head, tail, size, node links and values are unchanged.
C13_CopyMergeAppends == C13_Done /\ [][C13_Step /\ C13_Done']_vars

\* the loop of a copy merge of a two-element argument into another deque has
\* reached end()
C13_Witness ==
  /\ pc = "copying" /\ cit = NULL /\ call.op = "AddOtherDeque"
  /\ call.src # cdst
  /\ Len(call.theirs) = 2 /\ call.theirs[1] # call.theirs[2]
  /\ call.todo = 0

\* ---------------------------------------------------------------- C14
C14_Step ==
  \A d, o \in Deques :
    d # o /\ (MoveCtor(d, o) \/ MoveAssign(d, o)) =>
      /\ err' = NoError
      /\ Live(o)' /\ IsEmpty(Mem, o)' /\ Size(Mem, o)' = 0
      /\ head'[o] = NULL /\ tail'[o] = NULL
      /\ Live(d)' /\ Fwd(d)' = Fwd(o) /\ Size(Mem, d)' = Size(Mem, o)

\* C14: after move construction of d2 from d1, or d2 = move(d1) with d1 and
\* d2 distinct, d1 is an empty deque (IsEmpty(), Size() = 0, head and tail
\* null) and d2 yields exactly what d1 yielded before, with the same Size().
C14_MoveTransfers == [][C14_Step]_vars

\* a move assignment just released the two nodes of its receiver and the
\* receiver holds the node its argument allocated
C14_Witness ==
  \E d, o \in Deques :
    /\ d # o /\ Live(d) /\ Live(o) /\ pc = "idle" /\ err = NoError
    /\ Len(log) = 2 /\ \A i \in 1 .. 2 : log[i].via = d /\ log[i].by = d
    /\ size[d] = 1 /\ by[head[d]] = o
    /\ head[o] = NULL /\ tail[o] = NULL /\ size[o] = 0

\* ---------------------------------------------------------------- C15
\* the set of nodes of the chain of d
ChainOf(d) == UNION {{p[i] : i \in 1 .. Len(p)} : p \in {FwdNodes(d)}}

\* two deques share no node
C15_Disjoint ==
  \A d, e \in Deques :
    d # e /\ Live(d) /\ Live(e) => ChainOf(d) \cap ChainOf(e) = {}

\* a step of a mutation whose receiver is d
C15_Mutates(d) ==
  \/ IsPush(d) \/ IsPop(d) \/ Clear(d)
  \/ \E o \in Deques : AddOtherDequeCopy(d, o)
  \/ CopyStep /\ cdst = d

C15_Step ==
  \A d \in Deques :
    C15_Mutates(d) =>
      \A e \in Deques \ {d} :
        /\ Size(Mem, e)' = Size(Mem, e)
        /\ head'[e] = head[e] /\ tail'[e] = tail[e]
        /\ \A n \in ChainOf(e) :
             value'[n] = value[n] /\ prev'[n] = prev[n] /\ next'[n] = next[n]
             /\ by'[n] = by[n]

\* C15: a deque and its copy (copy-constructed or copy-assigned) share no
\* node, and a mutation of either (pushes, pops, Clear, merges into it)
\* leaves the other's size and contents unchanged.
C15_CopiesAreIndependent == C15_Disjoint /\ [][C15_Step /\ C15_Disjoint']_vars

\* a deque of two elements next to a deque that holds a node of its own with
\* the same first element and has just released another node of its own: a
\* copy after one of its pops
C15_Witness ==
  \E d, o \in Deques :
    /\ d # o /\ Live(d) /\ Live(o) /\ pc = "idle" /\ err = NoError
    /\ Len(Fwd(o)) = 2 /\ Fwd(o)[1] # Fwd(o)[2]
    /\ \A n \in ChainOf(o) : by[n] = o
    /\ Fwd(d) = <<Fwd(o)[1]>> /\ by[head[d]] = d
    /\ Len(log) = 1 /\ log[1].via = d /\ log[1].by = d

\* ---------------------------------------------------------------- C16
C16_Step ==
  \A d \in Deques, list \in Lists :
    InitListCtor(d, list) =>
      /\ err' = NoError /\ Live(d)'
      /\ Size(Mem, d)' = Len(list)
      /\ Fwd(d)' = list
      /\ Bwd(d)' = Reverse(list)

\* C16: constructing a deque from the list v1..vn (n >= 0) gives Size() = n,
\* a forward traversal that yields v1..vn and a reverse traversal that
\* yields vn..v1.
C16_InitListRoundTrip == [][C16_Step]_vars

\* a deque just constructed from a list of two different values
C16_Witness ==
  \E d \in Deques :
    /\ Live(d) /\ pc = "idle" /\ err = NoError /\ log = <<>>
    /\ Size(Mem, d) = 2 /\ Fwd(d)[1] # Fwd(d)[2]
    /\ Bwd(d) = <<Fwd(d)[2], Fwd(d)[1]>>

\* ---------------------------------------------------------------- C17
C17_Step ==
  \A d \in Deques :
    /\ Clear(d) => err' = NoError /\ head'[d] = NULL /\ tail'[d] = NULL /\ size'[d] = 0
    /\ IsEmpty(Mem, d) /\ Clear(d) => log' = <<>> /\ UNCHANGED Store

\* C17: Clear() on an already empty deque deallocates nothing, throws
\* nothing and leaves head and tail null and size 0 (it changes neither a
\* deque nor the heap); every Clear() leaves its deque in that empty state,
\* so Clear(); Clear() ends in the state a single Clear() ends in.
C17_ClearIsIdempotent == [][C17_Step]_vars

\* an empty deque after a call that freed nothing and threw nothing, while
\* the other deque holds elements: Clear() on an empty deque ends here
C17_Witness ==
  \E d, o \in Deques :
    /\ d # o /\ Live(d) /\ Live(o) /\ pc = "idle" /\ err = NoError /\ log = <<>>
    /\ head[d] = NULL /\ tail[d] = NULL /\ size[d] = 0
    /\ size[o] = 2

\* ---------------------------------------------------------------- C18
\* C18: when a = b returns (the loop test of the copy assignment fails), a
\* yields exactly what b yielded before the assignment, with the same
\* Size(), and b yields what it did - for every pair of deques, a and b
\* being the same object included.
C18_CopyAssignCopies ==
  pc = "copying" /\ call.op = "CopyAssign" /\ cit = NULL =>
    /\ Fwd(cdst) = call.theirs
    /\ Size(Mem, cdst) = Len(call.theirs)
    /\ Fwd(call.src) = call.theirs

\* ---------------------------------------------------------------- C19
\* C19: in every state every node that was allocated and not deallocated is
\* in the chain (reachable from head) of exactly one deque.
C19_EveryNodeOwnedOnce ==
  \A n \in Nodes :
    by[n] \notin {NoAllocator, Foreign} =>
      Cardinality({d \in Deques : Live(d) /\ n \in ChainOf(d)}) = 1

\* ---------------------------------------------------------------- C20
\* C20: every dealloc call is given a block that is allocated at that moment
\* (no block is deallocated twice), and in every state every deque's head
\* and tail and the prev and next links of every node of its chain are null
\* or refer to an allocated block.
C20_NoDoubleFreeNoDangling ==
  /\ \A i \in 1 .. Len(log) : log[i].by # NoAllocator
  /\ \A d \in Deques : Live(d) =>
       /\ Allocated(head[d]) /\ Allocated(tail[d])
       /\ \A n \in ChainOf(d) :
            by[n] # NoAllocator /\ Allocated(prev[n]) /\ Allocated(next[n])

\* a pop has just released, through its own deque, the last node of a chain
\* merged from two deques; the two nodes left are linked to each other
C20_Witness ==
  \E d, o \in Deques :
    /\ d # o /\ Live(d) /\ Live(o) /\ pc = "idle" /\ err = NoError
    /\ Len(log) = 1 /\ log[1].via = d /\ log[1].by = o
    /\ size[d] = 2 /\ by[head[d]] = d /\ by[tail[d]] = o
    /\ next[head[d]] = tail[d] /\ prev[tail[d]] = head[d]

\* ---------------------------------------------------------------- C21
\* the blocks the dealloc calls of a call were given, in call order
Released(l) == [i \in 1 .. Len(l) |-> l[i].node]

C21_Step ==
  \A d \in Deques :
    Clear(d) \/ Destroy(d) =>
      /\ err' = NoError
      /\ Released(log') = BwdNodes(d)
      /\ Len(log') = Size(Mem, d)
      /\ \A i \in 1 .. Len(log') : log'[i].by # NoAllocator
      /\ \A n \in ChainOf(d) : by'[n] = NoAllocator
      /\ \A n \in Nodes \ ChainOf(d) : by'[n] = NoAllocator <=> by[n] = NoAllocator
      /\ head'[d] = NULL /\ tail'[d] = NULL /\ size'[d] = 0

\* C21: Clear() and the destructor, on a deque whose chain has n nodes, make
\* exactly n dealloc calls, one for each node of the chain, from the tail to
\* the head, each for a block allocated at that moment; afterwards no node
\* of the chain is allocated, no other block was released, and head and tail
\* are null and size is 0.
C21_ClearReleasesEveryNode == [][C21_Step]_vars

\* a destroyed deque whose destructor released three nodes, the first of
\* them (the old tail) allocated by the other deque
C21_Witness ==
  \E d, o \in Deques :
    /\ d # o /\ ~Live(d) /\ pc = "idle" /\ err = NoError
    /\ Len(log) = 3 /\ \A i \in 1 .. 3 : log[i].via = d /\ by[log[i].node] = NoAllocator
    /\ log[1].by = o /\ log[3].by = d

\* ---------------------------------------------------------------- C22
C22_Step ==
  \A d, o \in Deques :
    d # o /\ ~IsEmpty(Mem, d) /\ MoveAssign(d, o) =>
      /\ err' = NoError
      /\ Released(log') = BwdNodes(d)
      /\ \A i \in 1 .. Len(log') : log'[i].via = d
      /\ \A n \in ChainOf(d) : by'[n] = NoAllocator /\ n \notin ChainOf(d)'
      /\ \A n \in ChainOf(o) : by'[n] = by[n] /\ by'[n] # NoAllocator
      /\ head'[d] = head[o] /\ tail'[d] = tail[o] /\ size'[d] = size[o]
      /\ ChainOf(d)' = ChainOf(o)

\* C22: d2 = move(d1) with d1 and d2 distinct and d2 not empty deallocates,
\* through d2's allocator, exactly the nodes d2 held before the call and
\* none of the nodes d1 held, and adopts d1's head, tail and size: after the
\* call none of d2's former nodes is allocated or reachable from d2, and all
\* of d1's former nodes are allocated and make up d2's chain.
C22_MoveAssignClearsFirst == [][C22_Step]_vars

\* the receiver of a move assignment released its two nodes, which are free
\* now, and its chain is the one node of the argument
C22_Witness ==
  \E d, o \in Deques :
    /\ d # o /\ Live(d) /\ Live(o) /\ pc = "idle" /\ err = NoError
    /\ Len(log) = 2 /\ log[1].node # log[2].node
    /\ \A i \in 1 .. 2 : log[i].via = d /\ by[log[i].node] = NoAllocator
    /\ ChainOf(d) = {head[d]} /\ by[head[d]] = o /\ head[d] = tail[d]
    /\ IsEmpty(Mem, o)

====
